---- MODULE Spec2Model ----
(***************************************************************************)
(* Model of the agent routing and consultation subsystem:                  *)
(*   agents/Core/agent_registry.py  (AgentRegistry)                        *)
(*   agents/Core/agent_router.py    (AgentRouter)                          *)
(*                                                                         *)
(* Execution is single-threaded and synchronous.  consult_agent is split   *)
(* at its suspension points: entry (agent lookup and cache check), one     *)
(* step per iteration of the retry loop, and the code after the loop.      *)
(***************************************************************************)
EXTENDS Integers, Sequences, FiniteSets, TLC

\* ------------------------------------------------------------------ bounds
MaxRetries == 1         \* max_retries is drawn from 0..MaxRetries
MaxCalls == 2           \* calls made in a run of Spec
MaxCacheCalls == 3      \* calls made in a run of SpecCache
_cache_max_size == 2    \* cache capacity (100 in __init__), scaled down
MaxRankCalls == 2       \* consultations made in a run of SpecRank
MaxRouteCalls == 2      \* route_query calls made in a run of SpecRoute
MaxViolations == 3      \* violations recorded in a run of SpecRules
MaxInstances == 2       \* agent objects registered under one name
MaxRegisterCalls == 2   \* consultations made in a run of SpecRegister
MaxBestCalls == 2       \* consult_best_agent calls made in a run of SpecBest
MaxKeyCalls == 2        \* consultations made in a run of SpecKey

\* ------------------------------------------------------------- input sets
AgentNames == {"TestAgent", "PhoenixExpert"}
Registered == {"TestAgent"}         \* the names Spec registers
Queries == {"q1"}
CacheQueries == {"q1", "q2"}

\* A Python value: its type and what it holds
Value(type, elems) == [type |-> type, elems |-> elems]

\* One item of a dict
Item(key, holds) == [key |-> key, holds |-> holds]

\* A context argument: None, or a dict given by its items in insertion
\* order; serializable is FALSE when json.dumps cannot encode one of its
\* values.
CtxNone == [isNone |-> TRUE, items |-> <<>>, serializable |-> TRUE]
CtxEmpty == [isNone |-> FALSE, items |-> <<>>, serializable |-> TRUE]
CtxObj == [isNone |-> FALSE, items |-> <<Item("a", Value("object", <<>>))>>,
           serializable |-> FALSE]
Contexts == {CtxNone, CtxEmpty, CtxObj}

\* Dicts that are equal but were filled in different orders, and dicts that
\* differ in the type of a value
CtxAB == [isNone |-> FALSE, serializable |-> TRUE,
          items |-> <<Item("a", Value("int", <<1>>)),
                      Item("b", Value("int", <<2>>))>>]
CtxBA == [isNone |-> FALSE, serializable |-> TRUE,
          items |-> <<Item("b", Value("int", <<2>>)),
                      Item("a", Value("int", <<1>>))>>]
CtxTuple == [isNone |-> FALSE, serializable |-> TRUE,
             items |-> <<Item("ids", Value("tuple", <<1, 2>>))>>]
CtxList == [isNone |-> FALSE, serializable |-> TRUE,
            items |-> <<Item("ids", Value("list", <<1, 2>>))>>]
KeyContexts == {CtxNone, CtxEmpty, CtxAB, CtxBA, CtxTuple, CtxList}

\* What one invocation of agent.consult() does:
\*   ok          returns a response with success True in time
\*   fail_result returns a response with success False in time, no raise
\*   raise       raises an exception that is not an OSError/AttributeError
\*   raise_os    raises OSError or AttributeError
\*   slow        runs longer than the timeout, then returns a response
Outcomes == {"ok", "fail_result", "raise", "raise_os", "slow"}

\* ------------------------------------------------------------------ state
VARIABLES
    agents,                 \* registered agent names, in registration order
    agent_instance,         \* registered name -> the agent object held for it
    enable_caching,
    max_retries,
    has_sigalrm,            \* platform offers signal.SIGALRM
    consultation_history,
    _consultation_cache,    \* insertion-ordered: sequence of [key, value]
    _agent_performance,     \* agent name -> counters, for the names updated
    pc,                     \* position inside consult_agent, or "idle"
    call,                   \* the running call: its agent, query, the cache
                            \* key of its arguments, and the state at entry
    attempt,                \* loop variable of the retry loop
    cache_key,              \* <<>> while the local is unbound, else <<key>>
    last_exception,
    invocations,            \* agent.consult() invocations made by the call
    last_outcome,           \* what the latest agent.consult() invocation did
    all_raised,             \* every invocation of the call raised or overran
    ret,                    \* what the last call gave back to its caller
    calls,                  \* calls started so far
    slept,                  \* time.sleep() arguments of the running call
    routing_history,        \* AgentRouter.routing_history
    rule_violations,        \* GlobalRules.rule_violations
    asked                   \* the ranking, routing or merge call ret answers:
                            \* its name and arguments (none for consult_agent)

vars == <<agents, agent_instance, enable_caching, max_retries, has_sigalrm,
          consultation_history, _consultation_cache, _agent_performance,
          pc, call, attempt, cache_key, last_exception, invocations,
          last_outcome, all_raised, ret, calls, slept, routing_history,
          rule_violations, asked>>

config == <<enable_caching, max_retries, has_sigalrm>>
locals == <<attempt, cache_key, last_exception>>
agent_log == <<invocations, last_outcome, all_raised>>
router == <<routing_history, rule_violations>>

\* ---------------------------------------------------------------- helpers
SeqToSet(s) == {s[i] : i \in 1..Len(s)}

NoCall == [agent_name |-> "", instance |-> 0, query |-> "", key |-> <<>>,
           serializable |-> TRUE, use_cache |-> FALSE, found |-> FALSE,
           hist0 |-> 0, perf0 |-> <<>>, cache0 |-> <<>>]

NoRet == [op |-> "none", status |-> "none", value |-> [none |-> TRUE]]

NoAsk == [op |-> "none"]

Returned(op, v) == [op |-> op, status |-> "returned", value |-> v]
Raised(op, e) == [op |-> op, status |-> "raised", value |-> [exception |-> e]]

\* list_agents
list_agents == agents

\* (variant: the lookup never comes back empty)
get_agent_any(agent_name) == TRUE

\* get_agent: the name resolves iff it was registered
get_agent(agent_name) == agent_name \in SeqToSet(agents)

\* An agent object: its get_name() and which object it is (objects that
\* answer to one name are told apart by instance, 1 upwards)
Agent(name, instance) == [name |-> name, instance |-> instance]

\* (variant: the lookup gives the first object registered under the name)
get_instance_first(agent_name) ==
    IF agent_name \in DOMAIN agent_instance THEN 1 ELSE 0

\* self.agents.get(agent_name): the object held for the name, 0 for None
get_instance(agent_name) ==
    IF agent_name \in DOMAIN agent_instance THEN agent_instance[agent_name]
    ELSE 0

\* dict assignment agents[name] = agent: the new object replaces the old one
assign_agent(held, agent) ==
    [n \in (DOMAIN held) \cup {agent.name} |->
        IF n = agent.name THEN agent.instance ELSE held[n]]

\* The JSON text json.dumps writes for a value: lists and tuples both
\* become arrays
JsonValue(held) ==
    CASE held.type \in {"list", "tuple"} ->
            [json |-> "array", elems |-> held.elems]
      [] held.type = "int" -> [json |-> "number", elems |-> held.elems]
      [] OTHER -> [json |-> "TypeError", elems |-> <<>>]

\* json.dumps(dict, sort_keys=True): with the keys sorted, the text is
\* determined by the set of (key, text of the value) pairs
JsonObject(items) ==
    {<<items[i].key, JsonValue(items[i].holds)>> : i \in 1..Len(items)}

\* _get_cache_key: md5 of the sorted-keys JSON text of agent, query and
\* (context or {}); the digest is taken to be injective on these texts.
_get_cache_key(agent_name, query, context) ==
    <<agent_name, query,
      JsonObject(IF context.isNone THEN <<>> ELSE context.items)>>

CacheKeys(cache) == {cache[i].key : i \in 1..Len(cache)}

\* (variant: the membership test never succeeds)
CacheHas_never(cache, key) == FALSE

\* cache_key in self._consultation_cache
CacheHas(cache, key) == key \in CacheKeys(cache)

CacheGet(cache, key) ==
    LET i == CHOOSE j \in 1..Len(cache) : cache[j].key = key
    IN cache[i].value

\* dict assignment: an existing key keeps its position, a new key goes last
DictSet(cache, key, value) ==
    IF key \in CacheKeys(cache)
    THEN [i \in 1..Len(cache) |->
            IF cache[i].key = key THEN [key |-> key, value |-> value]
            ELSE cache[i]]
    ELSE Append(cache, [key |-> key, value |-> value])

\* (variant: the newest entry is the one removed)
_cache_result_newest(cache, key, result) ==
    LET trimmed == IF Len(cache) >= _cache_max_size
                   THEN SubSeq(cache, 1, Len(cache) - 1) ELSE cache
    IN DictSet(trimmed, key, result)

\* _cache_result
_cache_result(cache, key, result) ==
    LET trimmed == IF Len(cache) >= _cache_max_size THEN Tail(cache) ELSE cache
    IN DictSet(trimmed, key, result)

\* _update_agent_performance
_update_agent_performance(perf, agent_name, success) ==
    LET old == IF agent_name \in DOMAIN perf THEN perf[agent_name]
               ELSE [total_consultations |-> 0,
                     successful_consultations |-> 0,
                     failed_consultations |-> 0,
                     success_rate |-> <<1, 2>>]
        total == old.total_consultations + 1
        succ == old.successful_consultations + (IF success THEN 1 ELSE 0)
        fail == old.failed_consultations + (IF success THEN 0 ELSE 1)
        new == [total_consultations |-> total,
                successful_consultations |-> succ,
                failed_consultations |-> fail,
                success_rate |-> <<succ, total>>]
    IN [n \in (DOMAIN perf) \cup {agent_name} |->
            IF n = agent_name THEN new ELSE perf[n]]

\* The response dict an agent adapter returns
Response(o) == [success |-> (o # "fail_result")]

\* (variant: the elapsed time is not looked at)
Fallback_untimed(o, n) ==
    CASE o \in {"ok", "fail_result", "slow"} ->
            [raised |-> "none", response |-> Response(o), inv |-> n, last |-> o]
      [] o \in {"raise", "raise_os"} ->
            [raised |-> "Exception", response |-> Response(o), inv |-> n,
             last |-> o]

\* Fallback branch of _consult_with_timeout (no signal-based timeout)
\* (consult_agent handles every exception class other than TimeoutError in
\* one except clause; "Exception" stands for all of them)
Fallback(o, n) ==
    CASE o \in {"ok", "fail_result"} ->
            [raised |-> "none", response |-> Response(o), inv |-> n, last |-> o]
      [] o \in {"raise", "raise_os"} ->
            [raised |-> "Exception", response |-> Response(o), inv |-> n,
             last |-> o]
      [] o = "slow" ->
            [raised |-> "TimeoutError", response |-> Response(o), inv |-> n,
             last |-> o]

\* _consult_with_timeout: o1 is the outcome of the first agent.consult(),
\* o2 the outcome of the second one when the except clause runs after it.
\* The SIGALRM handler raises TimeoutError, which is an OSError.
_consult_with_timeout(sigalrm, o1, o2) ==
    IF sigalrm
    THEN CASE o1 \in {"ok", "fail_result"} ->
                [raised |-> "none", response |-> Response(o1), inv |-> 1,
                 last |-> o1]
           [] o1 = "raise" ->
                [raised |-> "Exception", response |-> Response(o1), inv |-> 1,
                 last |-> o1]
           [] o1 \in {"raise_os", "slow"} -> Fallback(o2, 2)
    ELSE Fallback(o1, 1)

\* AgentRouter.agent_keywords, as built by AgentRouter.__init__
agent_keywords ==
    [test |-> {"test", "testing", "api test", "ui test", "integration test",
               "e2e test", "automation", "test case", "test suite",
               "run test", "execute test", "test endpoint", "test api",
               "validate"},
     phoenix_expert |-> {"phoenix", "question", "how", "what", "why",
               "explain", "documentation", "code", "endpoint", "api",
               "controller", "model", "validation", "permission",
               "business logic", "architecture", "confluence", "knowledge"},
     postman |-> {"postman", "collection", "export", "import",
               "generate collection", "postman collection", "api collection"},
     environment_access |-> {"dev", "dev-2", "dev2", "environment",
               "access environment", "login", "portal", "navigate",
               "open dev", "open dev-2", "go to dev", "go to dev-2",
               "switch to dev", "switch to dev-2", "enter dev", "enter dev-2",
               "connect to dev", "connect to dev-2"}]

\* The categories _analyze_intent subscripts agent_keywords with, in order
IntentLookups ==
    <<"test", "phoenix_expert", "postman", "gitlab_update", "environment_access">>

RECURSIVE SumSeq(_)
SumSeq(s) == IF s = <<>> THEN 0 ELSE s[1] + SumSeq(Tail(s))

MaxSeq(s) == CHOOSE m \in SeqToSet(s) : \A i \in 1..Len(s) : s[i] <= m

\* sum(1 for keyword in self.agent_keywords[category] if keyword in query_lower)
\* query.contains is the set of keywords that occur in the lowercased query
keyword_score(category, query) ==
    Cardinality({k \in agent_keywords[category] : k \in query.contains})

\* _analyze_intent: a subscript with a key the dict lacks raises KeyError
\* before any score is returned
_analyze_intent(query) ==
    IF \E i \in 1..Len(IntentLookups) : IntentLookups[i] \notin DOMAIN agent_keywords
    THEN [raised |-> "KeyError"]
    ELSE LET scores == [i \in 1..Len(IntentLookups) |->
                            keyword_score(IntentLookups[i], query)]
             max_score == MaxSeq(scores)
             \* max() over the items keeps the first maximum
             first == CHOOSE i \in 1..Len(scores) :
                          /\ scores[i] = max_score
                          /\ \A j \in 1..(i - 1) : scores[j] < max_score
             total_keywords == SumSeq(scores)
         IN [raised |-> "none",
             primary_intent |-> IntentLookups[first],
             intent_scores |-> scores,
             confidence |-> IF total_keywords > 0
                            THEN <<max_score, total_keywords>> ELSE <<0, 1>>,
             requires_multiple_agents |->
                 /\ max_score > 0
                 /\ Cardinality({i \in 1..Len(scores) : scores[i] > 0}) > 1]

\* ------------------------------------------------------------------- Init
Init ==
    /\ agents = <<>>
    /\ agent_instance = <<>>
    /\ enable_caching \in BOOLEAN
    /\ max_retries \in 0..MaxRetries
    /\ has_sigalrm \in BOOLEAN
    /\ consultation_history = <<>>
    /\ _consultation_cache = <<>>
    /\ _agent_performance = <<>>
    /\ pc = "idle"
    /\ call = NoCall
    /\ attempt = 0
    /\ cache_key = <<>>
    /\ last_exception = "none"
    /\ invocations = 0
    /\ last_outcome = "none"
    /\ all_raised = TRUE
    /\ ret = NoRet
    /\ calls = 0
    /\ slept = <<>>
    /\ routing_history = <<>>
    /\ rule_violations = <<>>
    /\ asked = NoAsk

\* ---------------------------------------------------------------- actions
\* register_agent: self.agents[agent.get_name()] = agent
register_agent(agent) ==
    /\ pc = "idle"
    /\ agents' = IF agent.name \in SeqToSet(agents) THEN agents
                 ELSE Append(agents, agent.name)
    /\ agent_instance' = assign_agent(agent_instance, agent)
    /\ UNCHANGED <<config, consultation_history, _consultation_cache,
                   _agent_performance, pc, call, locals, agent_log, ret, calls,
                   slept, router, asked>>

\* The first registration of a name
FirstAgent(name) ==
    name \notin SeqToSet(agents) /\ register_agent(Agent(name, 1))

\* (variant: the history is cleared with the cache)
clear_cache_and_history ==
    /\ pc = "idle"
    /\ _consultation_cache # <<>>
    /\ _consultation_cache' = <<>>
    /\ consultation_history' = <<>>
    /\ UNCHANGED <<agents, agent_instance, config, _agent_performance,
                   pc, call, locals, agent_log, ret, calls, slept,
                   router, asked>>

\* clear_cache
clear_cache ==
    /\ pc = "idle"
    /\ _consultation_cache # <<>>
    /\ _consultation_cache' = <<>>
    /\ UNCHANGED <<agents, agent_instance, config, consultation_history, _agent_performance,
                   pc, call, locals, agent_log, ret, calls, slept,
                   router, asked>>

\* The guard of the cache check in consult_agent
CacheCheckEnabled(use_cache) == enable_caching /\ use_cache

\* consult_agent, from entry up to the retry loop
consult_agent(agent_name, query, context, use_cache) ==
    /\ pc = "idle"
    /\ calls' = calls + 1
    /\ call' = [agent_name |-> agent_name,
                instance |-> get_instance(agent_name), query |-> query,
                key |-> _get_cache_key(agent_name, query, context),
                serializable |-> context.serializable,
                use_cache |-> use_cache,
                found |-> get_agent(agent_name),
                hist0 |-> Len(consultation_history),
                perf0 |-> _agent_performance,
                cache0 |-> _consultation_cache]
    /\ invocations' = 0
    /\ last_outcome' = "none"
    /\ all_raised' = TRUE
    /\ attempt' = 0
    /\ last_exception' = "none"
    /\ slept' = <<>>
    /\ asked' = NoAsk
    /\ UNCHANGED <<agents, agent_instance, config, consultation_history, _consultation_cache,
                   _agent_performance, router>>
    /\ IF ~get_agent(agent_name)
       THEN /\ ret' = Returned("consult_agent",
                        [success |-> FALSE, error |-> "not found",
                         available_agents |-> list_agents])
            /\ pc' = "idle"
            /\ cache_key' = <<>>
       ELSE IF CacheCheckEnabled(use_cache)
       THEN IF ~context.serializable
            THEN \* json.dumps raises TypeError outside any try block
                 /\ ret' = Raised("consult_agent", "TypeError")
                 /\ pc' = "idle"
                 /\ cache_key' = <<>>
            ELSE LET key == _get_cache_key(agent_name, query, context)
                 IN /\ cache_key' = <<key>>
                    /\ IF CacheHas(_consultation_cache, key)
                       THEN /\ ret' = Returned("consult_agent",
                                        CacheGet(_consultation_cache, key))
                            /\ pc' = "idle"
                       ELSE /\ ret' = NoRet
                            /\ pc' = "attempt"
       ELSE /\ cache_key' = <<>>
            /\ ret' = NoRet
            /\ pc' = "attempt"

\* (variant: the wait does not grow with the attempt)
wait_time_fixed(a) == 2

\* wait_time = 2 ** attempt
wait_time(a) == 2 ^ a

\* The two except clauses of the retry loop
HandleException(e) ==
    /\ last_exception' = e
    /\ ret' = ret
    /\ IF attempt < max_retries
       THEN /\ slept' = Append(slept, wait_time(attempt))
            /\ attempt' = attempt + 1
            /\ pc' = "attempt"
       ELSE /\ slept' = slept
            /\ attempt' = attempt
            /\ pc' = "exhausted"

\* consult_agent, one iteration of the retry loop
consult_attempt(o1, o2) ==
    /\ pc = "attempt"
    /\ LET r == _consult_with_timeout(has_sigalrm, o1, o2)
           result == [success |-> TRUE, agent |-> call.agent_name,
                      response |-> r.response, cached |-> FALSE]
           record == [to_agent |-> call.agent_name, query |-> call.query,
                      response |-> r.response, attempt |-> attempt + 1]
       IN /\ invocations' = invocations + r.inv
          /\ last_outcome' = r.last
          /\ all_raised' = (all_raised /\ r.raised # "none")
          /\ IF r.raised = "none"
             THEN /\ consultation_history' = Append(consultation_history, record)
                  /\ _agent_performance' =
                        _update_agent_performance(_agent_performance,
                                                  call.agent_name, TRUE)
                  /\ IF enable_caching
                     THEN IF cache_key = <<>>
                          THEN \* reading the unbound local raises
                               /\ HandleException("UnboundLocalError")
                               /\ UNCHANGED _consultation_cache
                          ELSE /\ _consultation_cache' =
                                     _cache_result(_consultation_cache,
                                                   cache_key[1], result)
                               /\ ret' = Returned("consult_agent", result)
                               /\ pc' = "idle"
                               /\ attempt' = 0
                               /\ last_exception' = "none"
                               /\ slept' = <<>>
                     ELSE /\ ret' = Returned("consult_agent", result)
                          /\ pc' = "idle"
                          /\ attempt' = 0
                          /\ last_exception' = "none"
                          /\ slept' = <<>>
                          /\ UNCHANGED _consultation_cache
             ELSE /\ HandleException(r.raised)
                  /\ UNCHANGED <<consultation_history, _consultation_cache,
                                 _agent_performance>>
    /\ UNCHANGED <<agents, agent_instance, config, call, cache_key, calls, router,
                   asked>>

\* (variant: the terminal failure is cached like a success)
all_retries_failed_cached ==
    /\ pc = "exhausted"
    /\ LET error_result == [success |-> FALSE, error |-> last_exception,
                            agent |-> call.agent_name]
           record == [to_agent |-> call.agent_name, query |-> call.query,
                      response |-> error_result, error |-> last_exception]
       IN /\ _agent_performance' =
                _update_agent_performance(_agent_performance,
                                          call.agent_name, FALSE)
          /\ consultation_history' = Append(consultation_history, record)
          /\ ret' = Returned("consult_agent", error_result)
          /\ _consultation_cache' =
                IF cache_key = <<>> THEN _consultation_cache
                ELSE _cache_result(_consultation_cache, cache_key[1],
                                   error_result)
    /\ pc' = "idle"
    /\ attempt' = 0
    /\ last_exception' = "none"
    /\ slept' = <<>>
    /\ UNCHANGED <<agents, agent_instance, config, call, cache_key, agent_log, calls,
                   router, asked>>

\* consult_agent, the code after the retry loop
all_retries_failed ==
    /\ pc = "exhausted"
    /\ LET error_result == [success |-> FALSE, error |-> last_exception,
                            agent |-> call.agent_name]
           record == [to_agent |-> call.agent_name, query |-> call.query,
                      response |-> error_result, error |-> last_exception]
       IN /\ _agent_performance' =
                _update_agent_performance(_agent_performance,
                                          call.agent_name, FALSE)
          /\ consultation_history' = Append(consultation_history, record)
          /\ ret' = Returned("consult_agent", error_result)
    /\ pc' = "idle"
    /\ attempt' = 0
    /\ last_exception' = "none"
    /\ slept' = <<>>
    /\ UNCHANGED <<agents, agent_instance, config, _consultation_cache, call, cache_key,
                   agent_log, calls, router, asked>>

\* route_query: step 1 (_analyze_intent) raises on every query, so the
\* statements after it are never reached and the exception leaves route_query
route_query(query, context) ==
    /\ pc = "idle"
    /\ LET intent == _analyze_intent(query)
       IN /\ intent.raised # "none"
          /\ ret' = Raised("route_query", intent.raised)
    /\ asked' = [op |-> "route_query", query |-> query]
    /\ calls' = calls + 1
    /\ UNCHANGED <<agents, agent_instance, config, consultation_history, _consultation_cache,
                   _agent_performance, pc, call, locals, agent_log, slept,
                   router>>

Next ==
    \/ \E name \in Registered : FirstAgent(name)
    \/ clear_cache
    \/ \E a \in AgentNames, q \in Queries, c \in Contexts, uc \in BOOLEAN :
            calls < MaxCalls /\ consult_agent(a, q, c, uc)
    \/ \E o1 \in Outcomes, o2 \in Outcomes :
            \* a second invocation is made only after an alarm-signal attempt
            \* whose first one raised OSError or overran
            /\ (has_sigalrm /\ o1 \in {"raise_os", "slow"}) \/ o2 = o1
            /\ consult_attempt(o1, o2)
    \/ all_retries_failed
    \/ \E q \in Queries : calls < MaxCalls /\ route_query(q, CtxNone)

Spec == Init /\ [][Next]_vars

\* Runs that fill the cache: more calls, over more cache keys, with fewer
\* kinds of agent behaviour
NextCache ==
    \/ \E name \in AgentNames : FirstAgent(name)
    \/ clear_cache
    \/ \E a \in AgentNames, q \in CacheQueries :
            calls < MaxCacheCalls /\ consult_agent(a, q, CtxNone, TRUE)
    \/ \E o \in {"ok", "raise"} : consult_attempt(o, o)
    \/ all_retries_failed

SpecCache == Init /\ [][NextCache]_vars

\* --------------------------------------------------- ranking: input sets
RankAgents == {"TestAgent", "PhoenixExpert", "EnvironmentAccessAgent"}

\* What the string tests of the scoring code give for one agent and one
\* query: agent.can_help_with(query), the number of query words found in the
\* agent's name, and the number of capabilities holding some query word.
NoHelp == [can_help_with |-> FALSE, name_matches |-> 0, capability_matches |-> 0]
Plain == [can_help_with |-> TRUE, name_matches |-> 0, capability_matches |-> 0]
Named == [can_help_with |-> TRUE, name_matches |-> 1, capability_matches |-> 0]
Capable == [can_help_with |-> TRUE, name_matches |-> 0, capability_matches |-> 2]
Strong == [can_help_with |-> TRUE, name_matches |-> 3, capability_matches |-> 4]
MatchKinds == {NoHelp, Plain, Named, Capable, Strong}

\* A query, as the ranking and routing code sees it: the keywords occurring
\* in its text, and what matching it against each agent gives.
RankQueries == {[contains |-> {}, match |-> m] : m \in [RankAgents -> MatchKinds]}

KeywordSets ==
    {{}, {"test"}, {"test", "validate"}, {"test", "api", "test api"},
     {"how", "phoenix", "api", "test"}, {"dev", "login"},
     {"postman", "collection", "postman collection", "test"}}

IntentQueries ==
    {[contains |-> k, match |-> [a \in RankAgents |-> NoHelp]] : k \in KeywordSets}

\* The intent argument of _find_competent_agents
Intents == {[primary_intent |-> "test"], [primary_intent |-> "postman"]}

\* ------------------------------------------------------ ranking: scores
\* A score is an exact fraction <<numerator, denominator>>; the rounding of
\* binary floating point is not modelled.
Min(a, b) == IF a <= b THEN a ELSE b
Less(x, y) == x[1] * y[2] < y[1] * x[2]
Same(x, y) == x[1] * y[2] = y[1] * x[2]

\* min(score, 1.0)
Cap(x) == IF Less(<<1, 1>>, x) THEN <<1, 1>> ELSE x

\* _calculate_relevance_score
_calculate_relevance_score(perf, agent, query) ==
    LET m == query.match[agent]
        tenths == 3 + (IF m.name_matches > 0
                       THEN Min(2, m.name_matches) ELSE 0)
                    + (IF m.capability_matches > 0
                       THEN Min(3, m.capability_matches) ELSE 0)
    IN IF agent \in DOMAIN perf
       THEN LET success_rate == perf[agent].success_rate
            IN Cap(<<tenths * success_rate[2] + 2 * success_rate[1],
                     10 * success_rate[2]>>)
       ELSE Cap(<<tenths, 10>>)

\* (variant: an element goes in front of the elements it ties with)
insert_reverse_unstable(sorted, x) ==
    LET n == Cardinality({i \in 1..Len(sorted) : Less(x.score, sorted[i].score)})
    IN SubSeq(sorted, 1, n) \o <<x>> \o SubSeq(sorted, n + 1, Len(sorted))

\* One insertion of the stable descending sort: x goes behind every element
\* whose score is not lower than its own
insert_reverse(sorted, x) ==
    LET n == Cardinality({i \in 1..Len(sorted) : ~Less(sorted[i].score, x.score)})
    IN SubSeq(sorted, 1, n) \o <<x>> \o SubSeq(sorted, n + 1, Len(sorted))

\* list.sort(key=score, reverse=True) and sorted(..., reverse=True): descending
\* by score, elements with equal scores keep their order
RECURSIVE sort_reverse(_)
sort_reverse(s) ==
    IF s = <<>> THEN <<>>
    ELSE insert_reverse(sort_reverse(SubSeq(s, 1, Len(s) - 1)), s[Len(s)])

\* find_helpful_agents
find_helpful_agents(registered, perf, query) ==
    LET can_help_with(a) == query.match[a].can_help_with
        helpful == SelectSeq(registered, can_help_with)
    IN sort_reverse([i \in 1..Len(helpful) |->
            [agent |-> helpful[i],
             score |-> _calculate_relevance_score(perf, helpful[i], query)]])

\* Which of the words the elif chain of _calculate_competence_score tests
\* occur in the lowercased agent name
NameWords ==
    [TestAgent |-> {"test"}, PhoenixExpert |-> {"phoenix"},
     EnvironmentAccessAgent |-> {"environment"},
     GitLabUpdateAgent |-> {"gitlab"}]

\* The (word, intent) pairs of that elif chain, in order
IntentWords ==
    <<[word |-> "test", intent |-> "test"],
      [word |-> "phoenix", intent |-> "phoenix_expert"],
      [word |-> "postman", intent |-> "postman"],
      [word |-> "gitlab", intent |-> "gitlab_update"],
      [word |-> "environment", intent |-> "environment_access"]>>

\* _calculate_competence_score
_calculate_competence_score(agent, query, intent) ==
    LET m == query.match[agent]
        tenths == (IF m.can_help_with THEN 3 ELSE 0)
                  + (IF \E i \in 1..Len(IntentWords) :
                            /\ IntentWords[i].word \in NameWords[agent]
                            /\ intent.primary_intent = IntentWords[i].intent
                     THEN 4 ELSE 0)
                  + m.capability_matches
    IN Cap(<<tenths, 10>>)

\* (variant: the whole ranking is returned)
top_agents_all(agent_scores) == agent_scores

\* agent_scores[:3] if len(agent_scores) > 1 else agent_scores
top_agents(agent_scores) ==
    IF Len(agent_scores) > 1
    THEN SubSeq(agent_scores, 1, Min(3, Len(agent_scores)))
    ELSE agent_scores

\* _find_competent_agents
_find_competent_agents(registered, query, intent) ==
    LET can_help_with(a) == query.match[a].can_help_with
        positive(a) == Less(<<0, 1>>, _calculate_competence_score(a, query, intent))
        scored == SelectSeq(SelectSeq(registered, can_help_with), positive)
        agent_scores == sort_reverse([i \in 1..Len(scored) |->
            [agent |-> scored[i],
             score |-> _calculate_competence_score(scored[i], query, intent),
             name |-> scored[i]]])
    IN top_agents(agent_scores)

\* -------------------------------------------------------------- merge
None == [none |-> TRUE]

\* The entries _orchestrate_multiple_agents builds for _combine_responses
ResponseScores == {<<3, 10>>, <<7, 10>>}
ResponseErrors == {"TimeoutError", "Exception"}
AgentResponses ==
    {[agent |-> a, score |-> sc, response |-> Response(o), success |-> TRUE] :
        a \in RankAgents, sc \in ResponseScores, o \in {"ok", "fail_result"}}
    \cup
    {[agent |-> a, score |-> sc, response |-> None, success |-> FALSE,
      error |-> e] :
        a \in RankAgents, sc \in ResponseScores, e \in ResponseErrors}

\* Lists of responses, one per agent, for up to all the agents
ResponseLists ==
    UNION {{rs \in [1..n -> AgentResponses] :
                \A i \in 1..n, j \in 1..n : i # j => rs[i].agent # rs[j].agent} :
           n \in 0..Cardinality(RankAgents)}

\* (variant: the successful responses stay in the order they came in)
prioritize_none(successful_responses) == successful_responses

\* sorted(successful_responses, key=score, reverse=True)
prioritize(successful_responses) == sort_reverse(successful_responses)

\* _combine_responses
_combine_responses(agent_responses, query) ==
    LET success(r) == r.success
        failure(r) == ~r.success
        successful_responses == SelectSeq(agent_responses, success)
        failed == SelectSeq(agent_responses, failure)
        sorted_responses == prioritize(successful_responses)
    IN IF successful_responses = <<>>
       THEN [combined |-> FALSE,
             message |-> "No successful agent responses to combine",
             errors |-> [i \in 1..Len(failed) |-> failed[i].error]]
       ELSE IF Len(successful_responses) = 1
       THEN [combined |-> FALSE,
             primary_response |-> successful_responses[1].response,
             source_agent |-> successful_responses[1].agent]
       ELSE [combined |-> TRUE,
             primary_response |-> sorted_responses[1].response,
             primary_agent |-> sorted_responses[1].agent,
             supplementary_responses |->
                 [i \in 1..(Len(sorted_responses) - 1) |->
                     [agent |-> sorted_responses[i + 1].agent,
                      response |-> sorted_responses[i + 1].response,
                      score |-> sorted_responses[i + 1].score]],
             summary |-> Len(successful_responses),
             query |-> query]

\* _orchestrate_multiple_agents, from the end of its loop: the result built
\* from the entries the loop collected, one per agent consulted, in order
orchestrated_result(agent_responses, query) ==
    LET agents_used == [i \in 1..Len(agent_responses) |-> agent_responses[i].agent]
    IN [success |-> \E i \in 1..Len(agent_responses) : agent_responses[i].success,
        routing_type |-> "orchestrated",
        agents_used |-> agents_used,
        primary_agent |-> IF agents_used # <<>> THEN agents_used[1] ELSE None,
        agent_responses |-> agent_responses,
        combined_response |-> _combine_responses(agent_responses, query),
        query |-> query]

\* ----------------------------------- ranking, intent and merge, called alone
Untouched ==
    UNCHANGED <<agents, agent_instance, config, consultation_history, _consultation_cache,
                _agent_performance, pc, call, locals, agent_log, calls, slept,
                router>>

\* a call of find_helpful_agents
FindHelpfulAgents(query) ==
    /\ pc = "idle"
    /\ asked' = [op |-> "find_helpful_agents", query |-> query]
    /\ ret' = Returned("find_helpful_agents",
                       find_helpful_agents(agents, _agent_performance, query))
    /\ Untouched

\* a call of _find_competent_agents
FindCompetentAgents(query, intent) ==
    /\ pc = "idle"
    /\ asked' = [op |-> "_find_competent_agents", query |-> query,
                 intent |-> intent]
    /\ ret' = Returned("_find_competent_agents",
                       _find_competent_agents(agents, query, intent))
    /\ Untouched

\* a call of _analyze_intent
AnalyzeIntent(query) ==
    /\ pc = "idle"
    /\ asked' = [op |-> "_analyze_intent", query |-> query]
    /\ LET intent == _analyze_intent(query)
       IN ret' = IF intent.raised # "none"
                 THEN Raised("_analyze_intent", intent.raised)
                 ELSE Returned("_analyze_intent", intent)
    /\ Untouched

\* a call of _get_cache_key
GetCacheKey(agent_name, query, context) ==
    /\ pc = "idle"
    /\ asked' = [op |-> "_get_cache_key", agent_name |-> agent_name,
                 query |-> query, context |-> context]
    /\ ret' = Returned("_get_cache_key",
                       _get_cache_key(agent_name, query, context))
    /\ Untouched

\* a call of _combine_responses
CombineResponses(agent_responses, query) ==
    /\ pc = "idle"
    /\ asked' = [op |-> "_combine_responses",
                 agent_responses |-> agent_responses, query |-> query]
    /\ ret' = Returned("_combine_responses",
                       _combine_responses(agent_responses, query))
    /\ Untouched

\* _orchestrate_multiple_agents building its result
OrchestratedResult(agent_responses, query) ==
    /\ pc = "idle"
    /\ asked' = [op |-> "_orchestrate_multiple_agents",
                 agent_responses |-> agent_responses, query |-> query]
    /\ ret' = Returned("_orchestrate_multiple_agents",
                       orchestrated_result(agent_responses, query))
    /\ Untouched

\* A ranking, intent or merge call changes nothing it reads, so a run makes
\* one of them at a time: the next one comes after the next consultation.
NotAsked == asked = NoAsk

\* A registry without caching, retries or alarm signal
InitPlain == Init /\ ~enable_caching /\ max_retries = 0 /\ ~has_sigalrm

\* Runs that rank the agents: registrations in any order, consultations
\* that build up performance entries, and ranking calls between them
NextRank ==
    \/ \E name \in RankAgents : FirstAgent(name)
    \/ \E a \in SeqToSet(agents) :
            calls < MaxRankCalls /\ consult_agent(a, "q1", CtxNone, FALSE)
    \/ \E o \in {"ok", "raise"} : consult_attempt(o, o)
    \/ all_retries_failed
    \/ \E q \in RankQueries : NotAsked /\ FindHelpfulAgents(q)
    \/ \E q \in RankQueries, i \in Intents :
            NotAsked /\ FindCompetentAgents(q, i)

SpecRank == InitPlain /\ [][NextRank]_vars

\* What the loop of _orchestrate_multiple_agents collects when route_query
\* hands it the candidates: two or more entries, by descending score
RankedResponseLists ==
    {l \in ResponseLists :
        /\ Len(l) >= 2
        /\ \A i \in 1..(Len(l) - 1) : ~Less(l[i].score, l[i + 1].score)}

\* Runs of the router: registrations in any order, routed queries, and the
\* router's intent analysis and merge called alone
NextRoute ==
    \/ \E name \in RankAgents : FirstAgent(name)
    \/ \E q \in RankQueries \cup IntentQueries :
            /\ calls < MaxRouteCalls
            /\ asked.op \in {"none", "route_query"}
            /\ route_query(q, CtxNone)
    \/ \E q \in IntentQueries : NotAsked /\ AnalyzeIntent(q)
    \/ \E rs \in ResponseLists : NotAsked /\ CombineResponses(rs, "q1")
    \/ \E rs \in RankedResponseLists :
            NotAsked /\ OrchestratedResult(rs, "q1")

SpecRoute == InitPlain /\ [][NextRoute]_vars

\* Runs with more agents than _find_competent_agents returns: four
\* registered in any order, then one competence ranking or one routed query
TopAgents == RankAgents \cup {"GitLabUpdateAgent"}
TopQueries ==
    {[contains |-> {}, match |-> m] : m \in [TopAgents -> {NoHelp, Plain, Capable}]}

NextTop ==
    \/ \E name \in TopAgents : FirstAgent(name)
    \/ \E q \in TopQueries, i \in Intents :
            NotAsked /\ FindCompetentAgents(q, i)
    \/ \E q \in TopQueries : NotAsked /\ route_query(q, CtxNone)

SpecTop == InitPlain /\ [][NextTop]_vars

\* (variant: the last candidate of the ranking is taken)
best_agent_last(helpful_agents) == helpful_agents[Len(helpful_agents)]

\* best_agent, best_score = helpful_agents[0]
best_agent(helpful_agents) == helpful_agents[1]

\* consult_best_agent: without candidates it returns at once, otherwise it
\* continues as consult_agent on the first candidate with use_cache left at
\* its default
consult_best_agent(query, context) ==
    LET helpful_agents == find_helpful_agents(agents, _agent_performance, query)
    IN IF helpful_agents = <<>>
       THEN /\ pc = "idle"
            /\ calls' = calls + 1
            /\ call' = [NoCall EXCEPT !.query = query,
                                      !.hist0 = Len(consultation_history),
                                      !.perf0 = _agent_performance,
                                      !.cache0 = _consultation_cache]
            /\ ret' = Returned("consult_best_agent",
                        [success |-> FALSE, error |-> "no agents found",
                         available_agents |-> list_agents])
            /\ invocations' = 0
            /\ last_outcome' = "none"
            /\ all_raised' = TRUE
            /\ attempt' = 0
            /\ cache_key' = <<>>
            /\ last_exception' = "none"
            /\ slept' = <<>>
            /\ asked' = NoAsk
            /\ UNCHANGED <<agents, agent_instance, config,
                           consultation_history, _consultation_cache,
                           _agent_performance, pc, router>>
       ELSE consult_agent(best_agent(helpful_agents).agent, query, context, TRUE)

\* Runs of consult_best_agent: two agents registered in any order, queries
\* that each of them accepts or not, with or without a match on its name
BestQueries ==
    {q \in RankQueries :
        /\ q.match["EnvironmentAccessAgent"] = NoHelp
        /\ \A a \in AgentNames : q.match[a] \in {NoHelp, Plain, Named}}

InitBest == Init /\ ~has_sigalrm

NextBest ==
    \/ \E name \in AgentNames : FirstAgent(name)
    \/ \E q \in BestQueries :
            calls < MaxBestCalls /\ consult_best_agent(q, CtxNone)
    \/ \E o \in {"ok", "raise"} : consult_attempt(o, o)
    \/ all_retries_failed

SpecBest == InitBest /\ [][NextBest]_vars

\* Runs over contexts: a caching registry, consultations with dict contexts,
\* and key computations one after the other
InitKey == Init /\ enable_caching /\ max_retries = 0 /\ ~has_sigalrm

NextKey ==
    \/ \E name \in AgentNames : FirstAgent(name)
    \/ \E a \in AgentNames, c \in KeyContexts :
            calls < MaxKeyCalls /\ consult_agent(a, "q1", c, TRUE)
    \/ \E o \in {"ok", "raise"} : consult_attempt(o, o)
    \/ all_retries_failed
    \/ \E a \in AgentNames, q \in CacheQueries, c \in KeyContexts :
            /\ asked.op \in {"none", "_get_cache_key"}
            /\ GetCacheKey(a, q, c)

SpecKey == InitKey /\ [][NextKey]_vars

\* Runs that register agents again: each registration under a name brings a
\* new object, with consultations and candidate rankings between them
RegisterQueries ==
    {q \in RankQueries :
        /\ q.match["EnvironmentAccessAgent"] = NoHelp
        /\ \A a \in AgentNames : q.match[a] \in {NoHelp, Plain}}

NextAgent(name) ==
    /\ get_instance(name) < MaxInstances
    /\ register_agent(Agent(name, get_instance(name) + 1))

NextRegister ==
    \/ \E name \in AgentNames : NextAgent(name)
    \/ \E a \in AgentNames :
            calls < MaxRegisterCalls /\ consult_agent(a, "q1", CtxNone, FALSE)
    \/ \E o \in {"ok", "raise"} : consult_attempt(o, o)
    \/ all_retries_failed
    \/ \E q \in RegisterQueries : NotAsked /\ FindHelpfulAgents(q)

SpecRegister == InitPlain /\ [][NextRegister]_vars

\* ------------------------------------------------------------ GlobalRules
\* A details argument: None, or a dict given by its (key, value) items
DetailsNone == [isNone |-> TRUE, items |-> {}]
DetailsEmpty == [isNone |-> FALSE, items |-> {}]
DetailsUsed == [isNone |-> FALSE, items |-> {<<"agent_used", TRUE>>}]
DetailsUnused == [isNone |-> FALSE, items |-> {<<"agent_used", FALSE>>}]
DetailsOther == [isNone |-> FALSE, items |-> {<<"note", TRUE>>}]
Details ==
    {DetailsNone, DetailsEmpty, DetailsUsed, DetailsUnused, DetailsOther}

OperationTypes == {"github", "file_write"}
Operations == {"push"}

\* bool(details): None and the empty dict are falsy
Truthy(details) == ~details.isNone /\ details.items # {}

\* details.get('agent_used', False)
agent_used(details) ==
    IF \E item \in details.items : item[1] = "agent_used"
    THEN (CHOOSE item \in details.items : item[1] = "agent_used")[2]
    ELSE FALSE

\* self.always_use_agents, set in __init__ and assigned nowhere else
always_use_agents == TRUE

RulesUntouched ==
    UNCHANGED <<agents, agent_instance, config, consultation_history,
                _consultation_cache, _agent_performance, pc, call, locals,
                agent_log, calls, slept, routing_history>>

\* validate_operation (the timestamp of a violation is left out)
validate_operation(operation_type, operation, details) ==
    /\ pc = "idle"
    /\ asked' = [op |-> "validate_operation",
                 operation_type |-> operation_type, operation |-> operation,
                 details |-> details]
    /\ IF Truthy(details) /\ ~agent_used(details) /\ always_use_agents
       THEN LET violation == [rule |-> "always_use_agents",
                              operation |-> operation,
                              operation_type |-> operation_type,
                              details |-> details,
                              status |-> "violation"]
            IN /\ rule_violations' = Append(rule_violations, violation)
               /\ ret' = Returned("validate_operation",
                            [permitted |-> FALSE, status |-> "DENIED",
                             operation |-> operation,
                             violation |-> violation])
       ELSE /\ rule_violations' = rule_violations
            /\ ret' = Returned("validate_operation",
                         [permitted |-> TRUE, status |-> "NOT_REQUIRED",
                          operation |-> operation])
    /\ RulesUntouched

\* check_agents_usage
check_agents_usage(operation, details) ==
    /\ pc = "idle"
    /\ asked' = [op |-> "check_agents_usage", operation |-> operation,
                 details |-> details]
    /\ IF ~always_use_agents
       THEN /\ rule_violations' = rule_violations
            /\ ret' = Returned("check_agents_usage",
                         [permitted |-> FALSE, status |-> "DENIED",
                          operation |-> operation])
       ELSE IF ~(Truthy(details) /\ agent_used(details))
       THEN LET violation == [rule |-> "always_use_agents",
                              operation |-> operation,
                              details |-> IF Truthy(details) THEN details
                                          ELSE DetailsEmpty,
                              status |-> "critical_violation"]
            IN /\ rule_violations' = Append(rule_violations, violation)
               /\ ret' = Returned("check_agents_usage",
                            [permitted |-> FALSE, status |-> "DENIED",
                             operation |-> operation,
                             violation |-> violation])
       ELSE /\ rule_violations' = rule_violations
            /\ ret' = Returned("check_agents_usage",
                         [permitted |-> TRUE, status |-> "GRANTED",
                          operation |-> operation])
    /\ RulesUntouched

\* clear_violations
clear_violations ==
    /\ pc = "idle"
    /\ rule_violations # <<>>
    /\ rule_violations' = <<>>
    /\ asked' = [op |-> "clear_violations"]
    /\ ret' = Returned("clear_violations", None)
    /\ RulesUntouched

\* Runs of the rule gate: validations and checks of operations, and clears
NextRules ==
    \/ \E t \in OperationTypes, o \in Operations, d \in Details :
            Len(rule_violations) < MaxViolations /\ validate_operation(t, o, d)
    \/ \E o \in Operations, d \in Details :
            Len(rule_violations) < MaxViolations /\ check_agents_usage(o, d)
    \/ clear_violations

SpecRules == InitPlain /\ [][NextRules]_vars

\* ----------------------------------------------------------------- claims
PerfOf(perf, name) ==
    IF name \in DOMAIN perf THEN perf[name]
    ELSE [total_consultations |-> 0, successful_consultations |-> 0,
          failed_consultations |-> 0, success_rate |-> <<1, 2>>]

\* consult_agent has given its result back to the caller
ConsultReturned ==
    pc = "idle" /\ ret.op = "consult_agent" /\ ret.status = "returned"

\* ... after running the agent (neither not-found nor a cache hit)
ExecutedReturn == ConsultReturned /\ call.found /\ invocations > 0

\* ... without running the agent, from the cache
CacheHitReturn == ConsultReturned /\ call.found /\ invocations = 0

\* C1: every consult_agent call on a registered agent that is not served
\* from the cache appends exactly one record to consultation_history and
\* updates the agent's performance exactly once, for any use_cache.
C1_OneRecordOneUpdate ==
    ExecutedReturn =>
        /\ Len(consultation_history) = call.hist0 + 1
        /\ PerfOf(_agent_performance, call.agent_name).total_consultations =
              PerfOf(call.perf0, call.agent_name).total_consultations + 1

\* C2: with max_retries = N, a call whose every agent invocation fails
\* invokes the agent exactly N+1 times, appends exactly one record (the
\* final failure), adds exactly one to failed_consultations and returns
\* success False.
C2_PermanentFailure ==
    (ExecutedReturn /\ all_raised) =>
        /\ invocations = max_retries + 1
        /\ Len(consultation_history) = call.hist0 + 1
        /\ "error" \in DOMAIN consultation_history[Len(consultation_history)]
        /\ PerfOf(_agent_performance, call.agent_name).failed_consultations =
              PerfOf(call.perf0, call.agent_name).failed_consultations + 1
        /\ ret.value.success = FALSE

\* C3: when agent.consult() returns without raising on attempt k, the call
\* ends there: k agent invocations in all and a result with success True,
\* for any use_cache and enable_caching.
C3_ReturnEndsCall ==
    [][(/\ pc = "attempt"
        /\ invocations' = invocations + 1
        /\ last_outcome' \in {"ok", "fail_result"}) =>
            /\ pc' = "idle"
            /\ ret'.status = "returned"
            /\ ret'.value.success = TRUE
            /\ invocations' = attempt + 1]_vars

CallKey == call.key

\* C4: a call with use_cache on a caching registry whose key is in the cache
\* (stored by an earlier successful call and neither evicted nor cleared)
\* returns the stored result without invoking the agent, appends no record
\* and updates no performance entry.  (ret and call describe the same call
\* until a later route_query overwrites ret.)
C4_CacheHitReturnsStored ==
    (/\ ret.op # "route_query"
     /\ enable_caching /\ call.use_cache /\ call.found
     /\ call.serializable
     /\ CallKey \in CacheKeys(call.cache0)) =>
        /\ ConsultReturned
        /\ \E i \in 1..Len(call.cache0) :
              /\ call.cache0[i].key = CallKey
              /\ ret.value = call.cache0[i].value
        /\ invocations = 0
        /\ Len(consultation_history) = call.hist0
        /\ _agent_performance = call.perf0

C4_Witness ==
    /\ CacheHitReturn /\ enable_caching /\ call.use_cache
    /\ CallKey \in CacheKeys(call.cache0)
    /\ Len(consultation_history) > 0

\* C5: a result returned from the cache carries cached: true, a freshly
\* executed one cached: false.
C5_CachedFlag ==
    /\ CacheHitReturn => ret.value.cached = TRUE
    /\ (ExecutedReturn /\ ret.value.success) => ret.value.cached = FALSE

\* A step that enters consult_agent
ConsultEntry == pc = "idle" /\ calls' = calls + 1 /\ ret'.op # "route_query"

\* C6: consult_agent with an unregistered name invokes no agent, leaves the
\* cache, the performance entries and the history as they were, and returns
\* success False with available_agents equal to the registered names.
C6_NotFound ==
    [][(ConsultEntry /\ call'.agent_name \notin SeqToSet(agents)) =>
            /\ pc' = "idle"
            /\ invocations' = 0
            /\ UNCHANGED <<_consultation_cache, _agent_performance,
                           consultation_history, agents>>
            /\ ret'.status = "returned"
            /\ ret'.value.success = FALSE
            /\ "available_agents" \in DOMAIN ret'.value
            /\ ret'.value.available_agents = agents]_vars

C6_Witness ==
    /\ ConsultReturned /\ ~call.found
    /\ "available_agents" \in DOMAIN ret.value
    /\ ret.value.available_agents # <<>>
    /\ call.agent_name \notin SeqToSet(agents)
    /\ _consultation_cache # <<>>

\* C7: an agent invocation that returns a failure result without raising is
\* handled like a raised error: nothing is recorded as a success and the
\* attempt is retried, or exhausts the call when it was the last one.
C7_FailureResultRetried ==
    [][(pc = "attempt" /\ last_outcome' = "fail_result") =>
            /\ pc' = IF attempt < max_retries THEN "attempt" ELSE "exhausted"
            /\ UNCHANGED <<consultation_history, _agent_performance,
                           _consultation_cache>>]_vars

\* C8: route_query and consult_agent never let an exception escape: every
\* call returns a result with a success flag and, on failure, an error.
C8_NoEscape ==
    /\ ret.status # "raised"
    /\ ret.status = "returned" =>
          /\ "success" \in DOMAIN ret.value
          /\ (~ret.value.success => "error" \in DOMAIN ret.value)

\* C9: an exhausted call writes nothing to the cache: every cache entry is
\* a success result wrapping a response an agent invocation returned, and
\* after an exhausted call the same call again would not be a cache hit.
C9_FailuresNotCached ==
    [][/\ \A i \in 1..Len(_consultation_cache') :
             LET e == _consultation_cache'[i]
             IN /\ e.value.success = TRUE
                /\ e.value.agent = e.key[1]
                /\ "response" \in DOMAIN e.value
                /\ e.value.response \in {Response(o) : o \in {"ok", "fail_result"}}
       /\ pc = "exhausted" =>
             /\ _consultation_cache' = call.cache0
             /\ ~(/\ enable_caching /\ call.use_cache
                  /\ CallKey \in CacheKeys(_consultation_cache'))]_vars

C9_Witness ==
    /\ ExecutedReturn /\ ret.value.success = FALSE /\ all_raised
    /\ enable_caching /\ call.use_cache
    /\ invocations > 1
    /\ CallKey \notin CacheKeys(_consultation_cache)
    /\ _consultation_cache = call.cache0

\* C10: the cache never holds more than _cache_max_size entries, and an
\* insertion into a full cache removes the entry inserted earliest.
C10_BoundedFifo ==
    [][/\ Len(_consultation_cache') <= _cache_max_size
       /\ (/\ Len(_consultation_cache) = _cache_max_size
           /\ _consultation_cache' # _consultation_cache
           /\ _consultation_cache' # <<>>) =>
             /\ _consultation_cache' =
                   Append(Tail(_consultation_cache),
                          _consultation_cache'[Len(_consultation_cache')])
             /\ _consultation_cache'[Len(_consultation_cache')].key
                   \notin CacheKeys(_consultation_cache)]_vars

C10_Witness ==
    /\ ExecutedReturn /\ ret.value.success
    /\ Len(call.cache0) = _cache_max_size
    /\ Len(_consultation_cache) = _cache_max_size
    /\ _consultation_cache[1] = call.cache0[2]
    /\ call.cache0[1].key \notin CacheKeys(_consultation_cache)
    /\ _consultation_cache[Len(_consultation_cache)].key = CallKey

Qualifying(query) ==
    LET can_help_with(a) == query.match[a].can_help_with
    IN SelectSeq(agents, can_help_with)

\* A step that is a call route_query(q, ...)
RouteStep(q) ==
    /\ pc = "idle"
    /\ calls' = calls + 1
    /\ asked' = [op |-> "route_query", query |-> q]

\* The records a step appends to consultation_history
Appended ==
    SubSeq(consultation_history', Len(consultation_history) + 1,
           Len(consultation_history'))

NoDuplicates(s) == \A i \in 1..Len(s), j \in 1..Len(s) : i # j => s[i] # s[j]

\* C12: route_query with two or more competent candidates consults every
\* selected candidate exactly once, in ranked order, whether or not earlier
\* ones failed; the records appended to consultation_history follow that
\* order; and the result's success is true iff some consultation succeeded.
C12_OrchestrateAll ==
    [][\A q \in RankQueries :
          (RouteStep(q) /\ Len(Qualifying(q)) >= 2) =>
              /\ ret'.status = "returned"
              /\ ret'.value.routing_type = "orchestrated"
              /\ LET used == ret'.value.agents_used
                     responses == ret'.value.agent_responses
                 IN /\ NoDuplicates(used)
                    /\ SeqToSet(used) \subseteq SeqToSet(Qualifying(q))
                    /\ Len(used) = Min(3, Len(Qualifying(q)))
                    /\ Len(Appended) = Len(used)
                    /\ \A i \in 1..Len(used) : Appended[i].to_agent = used[i]
                    /\ Len(responses) = Len(used)
                    /\ \A i \in 1..Len(used) : responses[i].agent = used[i]
                    /\ ret'.value.success =
                          (\E i \in 1..Len(responses) : responses[i].success)]_vars

\* C13: route_query with exactly one competent agent makes one consult_agent
\* call and returns routing_type single with agents_used holding that agent;
\* with k >= 2 qualifying agents it returns routing_type orchestrated with
\* agents_used holding the min(k, 3) selected agents.
C13_DispatchByCount ==
    [][\A q \in RankQueries :
          (RouteStep(q) /\ Len(Qualifying(q)) >= 1) =>
              /\ ret'.status = "returned"
              /\ IF Len(Qualifying(q)) = 1
                 THEN /\ ret'.value.routing_type = "single"
                      /\ ret'.value.agents_used = Qualifying(q)
                      /\ Len(Appended) = 1
                      /\ Appended[1].to_agent = Qualifying(q)[1]
                 ELSE /\ ret'.value.routing_type = "orchestrated"
                      /\ Len(ret'.value.agents_used) = Min(3, Len(Qualifying(q)))
                      /\ SeqToSet(ret'.value.agents_used)
                            \subseteq SeqToSet(Qualifying(q))]_vars

\* C14: route_query that finds no competent agent consults no agent, leaves
\* the history, the cache and the performance entries unchanged, and returns
\* success false with available_agents listing every registered name.
C14_NoCandidates ==
    [][\A q \in RankQueries :
          (RouteStep(q) /\ Qualifying(q) = <<>>) =>
              /\ UNCHANGED <<consultation_history, _consultation_cache,
                             _agent_performance>>
              /\ ret'.status = "returned"
              /\ ret'.value.success = FALSE
              /\ ret'.value.available_agents = agents]_vars

\* A step that is a call of the named ranking, intent or merge function
Asks(op) == asked = NoAsk /\ asked'.op = op

Successes(agent_responses) ==
    {i \in 1..Len(agent_responses) : agent_responses[i].success}

\* _combine_responses on no success, and on exactly one
MergeFewSuccesses(agent_responses, combined) ==
    /\ Successes(agent_responses) = {} =>
          /\ combined.combined = FALSE
          /\ LET failure(r) == ~r.success
                 failed == SelectSeq(agent_responses, failure)
             IN combined.errors = [i \in 1..Len(failed) |-> failed[i].error]
    /\ Cardinality(Successes(agent_responses)) = 1 =>
          /\ combined.combined = FALSE
          /\ \A i \in Successes(agent_responses) :
                combined.primary_response = agent_responses[i].response

\* C15: _combine_responses with no successful response returns combined
\* false with the error of every failed response; with exactly one successful
\* response it returns combined false with that response's payload as
\* primary_response; and route_query, whose candidates were consulted and
\* merged this way, returns a result (success true when one of them
\* succeeded).
C15_MergeFew ==
    [][/\ Asks("_combine_responses") =>
             MergeFewSuccesses(asked'.agent_responses, ret'.value)
       /\ \A q \in RankQueries :
             (RouteStep(q) /\ Len(Qualifying(q)) >= 2) =>
                 /\ ret'.status = "returned"
                 /\ MergeFewSuccesses(ret'.value.agent_responses,
                                      ret'.value.combined_response)
                 /\ ret'.value.success =
                       (Successes(ret'.value.agent_responses) # {})]_vars

\* C16: _combine_responses with two or more successful responses returns
\* combined true; primary_agent and primary_response come from a successful
\* response of highest score; supplementary_responses holds every other
\* successful response exactly once, in descending score order; failed
\* responses appear in neither.
C16_MergeMany ==
    [][(/\ Asks("_combine_responses")
        /\ Cardinality(Successes(asked'.agent_responses)) >= 2) =>
          LET rs == asked'.agent_responses
              ok == Successes(rs)
              v == ret'.value
              supp == v.supplementary_responses
          IN /\ ret'.status = "returned"
             /\ v.combined = TRUE
             /\ \E p \in ok :
                   /\ v.primary_agent = rs[p].agent
                   /\ v.primary_response = rs[p].response
                   /\ \A i \in ok : ~Less(rs[p].score, rs[i].score)
                   /\ Len(supp) = Cardinality(ok) - 1
                   /\ {supp[k].agent : k \in 1..Len(supp)} =
                         {rs[i].agent : i \in ok \ {p}}
                   /\ \A k \in 1..Len(supp) : \E i \in ok \ {p} :
                         /\ supp[k].agent = rs[i].agent
                         /\ supp[k].response = rs[i].response
                         /\ supp[k].score = rs[i].score
             /\ \A j \in 1..Len(supp), k \in 1..Len(supp) :
                   j < k => ~Less(supp[j].score, supp[k].score)]_vars

C16_Witness ==
    /\ asked.op = "_combine_responses"
    /\ Len(asked.agent_responses) = 3
    /\ asked.agent_responses[1].success
    /\ ~asked.agent_responses[2].success
    /\ asked.agent_responses[3].success
    /\ Less(asked.agent_responses[1].score, asked.agent_responses[3].score)
    /\ ret.value.combined = TRUE
    /\ ret.value.primary_agent = asked.agent_responses[3].agent
    /\ Len(ret.value.supplementary_responses) = 1
    /\ ret.value.supplementary_responses[1].agent = asked.agent_responses[1].agent

\* C17: route_query appends exactly one record to routing_history in each
\* call that has an agent to dispatch to, with agents_used the ordered list
\* of the agents consulted in the call; earlier records are never removed or
\* changed.
C17_RoutingRecord ==
    [][/\ Len(routing_history') >= Len(routing_history)
       /\ SubSeq(routing_history', 1, Len(routing_history)) = routing_history
       /\ \A q \in RankQueries :
             (RouteStep(q) /\ Len(Qualifying(q)) >= 1) =>
                 /\ Len(routing_history') = Len(routing_history) + 1
                 /\ LET used == routing_history'[Len(routing_history')].agents_used
                    IN /\ SeqToSet(used) \subseteq SeqToSet(Qualifying(q))
                       /\ Len(used) = Len(Appended)
                       /\ \A i \in 1..Len(used) : Appended[i].to_agent = used[i]]_vars

\* C18: _analyze_intent returns, for every query, an intent whose
\* primary_intent is the first category with the maximum keyword-hit count,
\* whose confidence is that count over the total of all counts (0 when
\* nothing matched), and whose requires_multiple_agents is true iff more
\* than one category has a nonzero count.
C18_ClassifyIntent ==
    [][Asks("_analyze_intent") =>
          /\ ret'.status = "returned"
          /\ LET v == ret'.value
                 scores == v.intent_scores
                 top == MaxSeq(scores)
                 total == SumSeq(scores)
             IN /\ \A i \in 1..Len(IntentLookups) :
                      IntentLookups[i] \in DOMAIN agent_keywords =>
                          scores[i] = keyword_score(IntentLookups[i],
                                                    asked'.query)
                /\ \E i \in 1..Len(scores) :
                      /\ v.primary_intent = IntentLookups[i]
                      /\ scores[i] = top
                      /\ \A j \in 1..(i - 1) : scores[j] < top
                /\ v.confidence = IF total > 0 THEN <<top, total>> ELSE <<0, 1>>
                /\ v.requires_multiple_agents =
                      (Cardinality({i \in 1..Len(scores) : scores[i] > 0}) > 1)]_vars

\* Position of a registered agent in registration order
Position(a) == CHOOSE i \in 1..Len(agents) : agents[i] = a

\* A ranking result for a query: only agents that pass can_help_with; a
\* higher score first; equal scores in registration order
Ranked(result, query) ==
    /\ \A i \in 1..Len(result) :
          /\ result[i].agent \in SeqToSet(agents)
          /\ query.match[result[i].agent].can_help_with
    /\ \A i \in 1..Len(result), j \in 1..Len(result) :
          i < j =>
              \/ Less(result[j].score, result[i].score)
              \/ /\ Same(result[i].score, result[j].score)
                 /\ Position(result[i].agent) < Position(result[j].agent)

\* C19: find_helpful_agents and _find_competent_agents return only agents
\* for which can_help_with(query) is true, an agent with a strictly higher
\* score before one with a lower score, and agents with equal scores in
\* registration order.
C19_RankedOrder ==
    [][(Asks("find_helpful_agents") \/ Asks("_find_competent_agents")) =>
          /\ ret'.status = "returned"
          /\ Ranked(ret'.value, asked'.query)]_vars

C19_Witness ==
    /\ asked.op = "find_helpful_agents"
    /\ Len(agents) = 3
    /\ Len(ret.value) = 2
    /\ \E a \in SeqToSet(agents) : ~asked.query.match[a].can_help_with
    /\ Same(ret.value[1].score, ret.value[2].score)
    /\ ret.value[1].agent \in DOMAIN _agent_performance
    /\ ret.value[2].agent \notin DOMAIN _agent_performance
    /\ asked.query.match[ret.value[1].agent] # asked.query.match[ret.value[2].agent]

\* The relevance score with a success rate of 0.5 for an agent that has no
\* performance entry
PriorScore(agent, query) ==
    LET m == query.match[agent]
        tenths == 3 + Min(2, m.name_matches) + Min(3, m.capability_matches)
        success_rate == IF agent \in DOMAIN _agent_performance
                        THEN _agent_performance[agent].success_rate
                        ELSE <<1, 2>>
    IN Cap(<<tenths * success_rate[2] + 2 * success_rate[1],
             10 * success_rate[2]>>)

\* C20: the relevance score of find_helpful_agents is 0.3 + min(0.2, 0.1 per
\* query word in the agent name) + min(0.3, 0.1 per matching capability) +
\* 0.2 x success_rate, capped at 1.0, with success_rate 0.5 for an agent that
\* has no consultation history.
C20_RelevanceScore ==
    [][Asks("find_helpful_agents") =>
          \A i \in 1..Len(ret'.value) :
              Same(ret'.value[i].score,
                   PriorScore(ret'.value[i].agent, asked'.query))]_vars
\* The registered agents _find_competent_agents scores for a query: those
\* whose can_help_with accepts it and whose competence score is positive
Competent(query, intent) ==
    {a \in SeqToSet(agents) :
        /\ query.match[a].can_help_with
        /\ Less(<<0, 1>>, _calculate_competence_score(a, query, intent))}

\* C21: _find_competent_agents returns the three highest-scoring qualifying
\* agents when more than three qualify, all of them when two or three
\* qualify, the single one when one qualifies and nothing when none does;
\* and route_query consults no agent ranked below the third.
C21_TopThree ==
    [][/\ Asks("_find_competent_agents") =>
            LET query == asked'.query
                intent == asked'.intent
                qualifying == Competent(query, intent)
                result == ret'.value
                returned == {result[k].agent : k \in 1..Len(result)}
            IN /\ Len(result) = Min(3, Cardinality(qualifying))
               /\ Cardinality(returned) = Len(result)
               /\ returned \subseteq qualifying
               /\ \A k \in 1..Len(result) :
                     result[k].score =
                        _calculate_competence_score(result[k].agent, query,
                                                    intent)
               /\ \A a \in qualifying \ returned, k \in 1..Len(result) :
                     ~Less(result[k].score,
                           _calculate_competence_score(a, query, intent))
       /\ \A q \in TopQueries : RouteStep(q) =>
            \A k \in 1..Len(Appended), i \in Intents :
                Appended[k].to_agent \in
                    {r.agent : r \in SeqToSet(
                        _find_competent_agents(agents, q, i))}]_vars

\* four agents qualified and three came back
C21_Witness ==
    /\ asked.op = "_find_competent_agents"
    /\ Cardinality(Competent(asked.query, asked.intent)) = 4
    /\ Len(ret.value) = 3
    /\ Less(ret.value[3].score, ret.value[1].score)

\* C22: validate_operation permits an operation iff its details carry
\* agent_used true; every other operation, with absent or empty details too,
\* is denied; a denial appends exactly one entry to rule_violations, a
\* permit appends none, and no call raises.
C22_PermitIffAgentUsed ==
    [][asked'.op = "validate_operation" =>
            LET details == asked'.details
                used == ~details.isNone /\ <<"agent_used", TRUE>> \in details.items
            IN /\ ret'.status = "returned"
               /\ ret'.value.permitted = used
               /\ IF used
                  THEN rule_violations' = rule_violations
                  ELSE /\ Len(rule_violations') = Len(rule_violations) + 1
                       /\ SubSeq(rule_violations', 1, Len(rule_violations)) =
                             rule_violations]_vars

\* C23: every performance entry has total_consultations =
\* successful_consultations + failed_consultations and success_rate =
\* successful / total; no step removes an entry or lowers a counter; and a
\* consultation that ran the agent has, when it completes, added exactly one
\* to the agent's total.
C23_Counters ==
    [][/\ \A n \in DOMAIN _agent_performance :
            /\ n \in DOMAIN _agent_performance'
            /\ _agent_performance'[n].total_consultations >=
                  _agent_performance[n].total_consultations
            /\ _agent_performance'[n].successful_consultations >=
                  _agent_performance[n].successful_consultations
            /\ _agent_performance'[n].failed_consultations >=
                  _agent_performance[n].failed_consultations
       /\ \A n \in DOMAIN _agent_performance' :
            LET p == _agent_performance'[n]
            IN /\ p.total_consultations =
                     p.successful_consultations + p.failed_consultations
               /\ Same(p.success_rate,
                       <<p.successful_consultations, p.total_consultations>>)
       /\ (pc \in {"attempt", "exhausted"} /\ pc' = "idle") =>
            PerfOf(_agent_performance', call.agent_name).total_consultations =
                PerfOf(call.perf0, call.agent_name).total_consultations + 1]_vars

\* C24: registering an agent under a name that is already registered does
\* not fail; the registry holds exactly one agent per distinct name, the one
\* registered last, and that agent is the one consult_agent consults and
\* find_helpful_agents lists.
C24_LastRegisteredWins ==
    [][/\ \A name \in AgentNames, i \in 1..(MaxInstances + 1) :
            register_agent(Agent(name, i)) =>
                /\ agent_instance'[name] = i
                /\ \A n \in DOMAIN agent_instance :
                      n # name => agent_instance'[n] = agent_instance[n]
                /\ ret' = ret
       /\ NoDuplicates(agents')
       /\ DOMAIN agent_instance' = SeqToSet(agents')
       /\ agent_instance' # agent_instance =>
            \E name \in AgentNames, i \in 1..(MaxInstances + 1) :
                register_agent(Agent(name, i))
       /\ ConsultEntry =>
            /\ call'.found = (call'.agent_name \in SeqToSet(agents))
            /\ call'.found => call'.instance = agent_instance[call'.agent_name]
       /\ Asks("find_helpful_agents") =>
            LET result == ret'.value
            IN /\ NoDuplicates([k \in 1..Len(result) |-> result[k].agent])
               /\ {result[k].agent : k \in 1..Len(result)} =
                     {a \in SeqToSet(agents) :
                        asked'.query.match[a].can_help_with}]_vars

\* a consultation ran the second object registered under its name
C24_Witness ==
    /\ ExecutedReturn
    /\ Len(agents) = 2
    /\ call.instance = 2
    /\ agent_instance[call.agent_name] = 2

\* C25: consult_best_agent returns a not-found failure without invoking any
\* agent when no registered agent accepts the query; otherwise it consults
\* the top-ranked candidate and no other, also when that one fails all its
\* attempts.
C25_BestOnly ==
    [][/\ (pc = "idle" /\ calls' = calls + 1) =>
            LET helpful == find_helpful_agents(agents, _agent_performance,
                                               call'.query)
            IN IF helpful = <<>>
               THEN /\ pc' = "idle"
                    /\ ret'.status = "returned"
                    /\ ret'.value.success = FALSE
                    /\ ret'.value.available_agents = agents
                    /\ invocations' = 0
                    /\ UNCHANGED <<consultation_history, _consultation_cache,
                                   _agent_performance>>
               ELSE /\ call'.found
                    /\ call'.agent_name = helpful[1].agent
                    /\ \A k \in 2..Len(helpful) :
                          ~Less(helpful[1].score, helpful[k].score)
       /\ pc # "idle" =>
            /\ \A k \in 1..Len(Appended) :
                  Appended[k].to_agent = call.agent_name
            /\ \A n \in AgentNames \ {call.agent_name} :
                  PerfOf(_agent_performance', n) = PerfOf(_agent_performance, n)
            /\ call.agent_name =
                  find_helpful_agents(agents, call.perf0, call.query)[1].agent
       /\ pc = "exhausted" =>
            /\ pc' = "idle"
            /\ ret'.status = "returned"
            /\ ret'.value.success = FALSE
            /\ ret'.value.agent = call.agent_name]_vars

\* the top-ranked of two candidates failed all its attempts, more than one
C25_Witness ==
    /\ ExecutedReturn
    /\ ret.value.success = FALSE
    /\ invocations > 1
    /\ Len(find_helpful_agents(agents, call.perf0, call.query)) = 2
    /\ Len(consultation_history) = call.hist0 + 1
    /\ consultation_history[Len(consultation_history)].to_agent =
          find_helpful_agents(agents, call.perf0, call.query)[1].agent

\* C26: without an alarm signal, an agent invocation that returns after
\* more than the timeout counts as a TimeoutError failure of its attempt:
\* the response is dropped, no success is recorded, and the attempt is
\* retried or, when it was the last one, the call ends in failure.
C26_LateReturnIsTimeout ==
    [][/\ (~has_sigalrm /\ pc = "attempt" /\ last_outcome' = "slow") =>
            /\ invocations' = invocations + 1
            /\ last_exception' = "TimeoutError"
            /\ ret' = ret
            /\ UNCHANGED <<consultation_history, _consultation_cache,
                           _agent_performance>>
            /\ IF attempt < max_retries
               THEN pc' = "attempt" /\ attempt' = attempt + 1
               ELSE pc' = "exhausted"
       /\ (~has_sigalrm /\ pc = "exhausted" /\ last_outcome = "slow") =>
            /\ ret'.status = "returned"
            /\ ret'.value.success = FALSE
            /\ ret'.value.error = "TimeoutError"
            /\ PerfOf(_agent_performance', call.agent_name).successful_consultations =
                  PerfOf(_agent_performance, call.agent_name).successful_consultations
            /\ PerfOf(_agent_performance', call.agent_name).failed_consultations =
                  PerfOf(_agent_performance, call.agent_name).failed_consultations + 1]_vars

\* every attempt of a call with retries came back late
C26_Witness ==
    /\ ~has_sigalrm
    /\ ExecutedReturn
    /\ last_outcome = "slow"
    /\ ret.value.success = FALSE
    /\ ret.value.error = "TimeoutError"
    /\ max_retries > 0
    /\ invocations = max_retries + 1
    /\ all_raised

\* Python equality of two context arguments as consult_agent passes them on
\* (context or {}): the same keys with equal values, in any order; a tuple
\* and a list are not equal
DictOf(context) ==
    {<<context.items[i].key, context.items[i].holds>> :
        i \in 1..Len(context.items)}

SameTriple(a, b) ==
    /\ a.agent_name = b.agent_name
    /\ a.query = b.query
    /\ DictOf(a.context) = DictOf(b.context)

\* C27: the cache key depends on (agent_name, query, context) only and not
\* on the insertion order of the context: two key computations give the same
\* key iff their triples are equal, so no entry stored for one agent, query
\* or context is found under the key of another.
C27_KeyOfTriple ==
    [][(asked.op = "_get_cache_key" /\ asked'.op = "_get_cache_key") =>
            ((ret'.value = ret.value) <=> SameTriple(asked, asked'))]_vars

\* C28: every attempt of consult_agent invokes agent.consult() exactly
\* once, whatever the invocation raises, so a call never makes more than
\* max_retries + 1 invocations.
C28_OneInvocationPerAttempt ==
    [][pc = "attempt" =>
            /\ invocations' = invocations + 1
            /\ invocations' = attempt + 1
            /\ invocations' <= max_retries + 1]_vars

\* C29: in an orchestrated result with success true, primary_agent names an
\* agent whose consultation succeeded, and it is the agent combined_response
\* names as its primary or source agent.
C29_PrimaryAgentSucceeded ==
    [][(Asks("_orchestrate_multiple_agents") /\ ret'.value.success) =>
            LET result == ret'.value
                combined_response == result.combined_response
                named == IF combined_response.combined
                         THEN combined_response.primary_agent
                         ELSE combined_response.source_agent
            IN /\ result.routing_type = "orchestrated"
               /\ \E k \in 1..Len(result.agent_responses) :
                     /\ result.agent_responses[k].agent = result.primary_agent
                     /\ result.agent_responses[k].success
               /\ result.primary_agent = named]_vars

\* C30: with enable_caching false the cache stays empty whatever is done,
\* and every consult_agent call on a registered agent invokes the agent,
\* for any use_cache; clear_cache empties the cache and leaves agents,
\* consultation_history and the performance entries as they were.
C30_CachingDisabled ==
    [][/\ ~enable_caching =>
            /\ _consultation_cache' = <<>>
            /\ (ConsultEntry /\ call'.found) =>
                    pc' = "attempt" /\ ret' = NoRet
            /\ pc = "attempt" => invocations' > invocations
            /\ (pc # "idle" /\ pc' = "idle") => invocations' > 0
       /\ (_consultation_cache # <<>> /\ _consultation_cache' = <<>>) =>
            UNCHANGED <<agents, agent_instance, consultation_history,
                        _agent_performance>>
       /\ clear_cache => _consultation_cache' = <<>>]_vars

\* a second call with use_cache on a registry without caching ran the agent
C30_Witness ==
    /\ ~enable_caching
    /\ ExecutedReturn
    /\ call.use_cache
    /\ ret.value.success
    /\ call.hist0 > 0
    /\ consultation_history[call.hist0].to_agent = call.agent_name
    /\ ~("error" \in DOMAIN consultation_history[call.hist0])
    /\ _consultation_cache = <<>>

====
